---- MODULE Spec2Model ----
(***************************************************************************)
(* Model of xknx.devices.climate.Climate: one climate controller with its  *)
(* four remote values, its seven operation mode / controller status group  *)
(* addresses, the outbound mode command and the inbound telegram routing.  *)
(*                                                                         *)
(* Every action but Return is one whole call of a method of the class.     *)
(* The call, the telegrams it handed to Device.send and the calls of       *)
(* Device.after_update it made are recorded in `call`, `sent` and          *)
(* `notified`, and the fields as they were when it started in `before`.    *)
(* Under Spec the caller takes the results (Return) before the next call;  *)
(* under SpecSeq and SpecSet the calls follow each other directly, so that *)
(* a step relates the records of two consecutive calls; `tick` flips with  *)
(* every call, so that a call that repeats the last one is a step too.     *)
(***************************************************************************)
EXTENDS Integers, Sequences, FiniteSets, TLC

\* ------------------------------------------------------------------------
\* Bounds of the model
\* ------------------------------------------------------------------------

\* one-byte payloads on the bus take the values 0..MaxByte
MaxByte == 5

\* number of group addresses on the bus that no option of any configuration has
NumForeign == 1

\* two-byte (temperature) payloads are <<0, b>> with b in 0..MaxTemp
MaxTemp == 0

\* ------------------------------------------------------------------------
\* Values
\* ------------------------------------------------------------------------

\* Python's None, as the value of a group address option that is not given
None == 0

\* the twelve group address options of the constructor, in its order
ChannelOptions ==
    << "group_address_temperature",
       "group_address_target_temperature",
       "group_address_setpoint",
       "group_address_setpoint_shift",
       "group_address_setpoint_shift_state" >>

ModeOptions ==
    << "group_address_operation_mode",
       "group_address_operation_mode_state",
       "group_address_operation_mode_protection",
       "group_address_operation_mode_night",
       "group_address_operation_mode_comfort",
       "group_address_controller_status",
       "group_address_controller_status_state" >>

Options == ChannelOptions \o ModeOptions

Range(s) == {s[i] : i \in DOMAIN s}

\* the group address an installation gives to an option when no two options
\* share one: the position of the option in the constructor
OwnAddress(o) == CHOOSE i \in DOMAIN Options : Options[i] = o

\* group addresses of the bus that belong to other devices
ForeignAddresses == (Len(Options) + 1) .. (Len(Options) + NumForeign)

\* the members of HVACOperationMode, in the order of the enumeration
HVACOperationMode == << "AUTO", "COMFORT", "STANDBY", "NIGHT", "FROST_PROTECTION" >>

Modes == Range(HVACOperationMode)

\* payloads of a telegram: an array of bytes, or one bit (held as <<bit>>)
DPTArray(value) == [type |-> "DPTArray", value |-> value]

DPTBinary(value) == [type |-> "DPTBinary", value |-> << value >>]

\* the payload of a remote value that has received nothing yet
NoPayload == [type |-> "None", value |-> <<>>]

Bool2Bit(b) == IF b THEN 1 ELSE 0

Payloads ==
    {DPTBinary(b) : b \in 0..1}
        \cup {DPTArray(<<b>>) : b \in 0..MaxByte}
        \cup {DPTArray(<<0, b>>) : b \in 0..MaxTemp}

Telegram(group_address, payload) ==
    [group_address |-> group_address, payload |-> payload]

\* ------------------------------------------------------------------------
\* The operation mode codecs (xknx.knx.DPTHVACMode, DPTControllerStatus)
\* ------------------------------------------------------------------------

\* what a decoder yields for a byte that encodes no operation mode
Unparsable == "Unparsable"

\* position of a mode in the enumeration, from 0
ModeIndex(m) == (CHOOSE i \in DOMAIN HVACOperationMode : HVACOperationMode[i] = m) - 1

\* single-byte enumerated mode
DPTHVACMode_to_knx(operation_mode) == << ModeIndex(operation_mode) >>

DPTHVACMode_from_knx(raw) ==
    IF raw[1] + 1 \in DOMAIN HVACOperationMode
    THEN HVACOperationMode[raw[1] + 1]
    ELSE Unparsable

\* bit b (a power of two) of a byte is set
BitSet(byte, b) == (byte \div b) % 2 = 1

\* the bits of the status byte that are not mode bits
StatusBase == 32

\* single-byte controller status bitfield: one bit per mode
DPTControllerStatus_to_knx(operation_mode) ==
    << StatusBase +
        (CASE operation_mode = "COMFORT" -> 1
           [] operation_mode = "STANDBY" -> 2
           [] operation_mode = "NIGHT" -> 4
           [] operation_mode = "FROST_PROTECTION" -> 8
           [] OTHER -> 0) >>

DPTControllerStatus_from_knx(raw) ==
    IF BitSet(raw[1], 8) THEN "FROST_PROTECTION"
    ELSE IF BitSet(raw[1], 4) THEN "NIGHT"
    ELSE IF BitSet(raw[1], 2) THEN "STANDBY"
    ELSE IF BitSet(raw[1], 1) THEN "COMFORT"
    ELSE IF raw[1] = StatusBase THEN "AUTO"
    ELSE Unparsable

\* ------------------------------------------------------------------------
\* The remote values (xknx.devices.remote_value)
\* ------------------------------------------------------------------------

\* RemoteValueTemp(xknx, group_address), RemoteValue1Count(xknx, group_address,
\* group_address_state): payload_length is the length of the DPTArray it accepts
RemoteValue(group_address, group_address_state, payload_length) ==
    [group_address |-> group_address,
     group_address_state |-> group_address_state,
     payload_length |-> payload_length,
     payload |-> NoPayload]

RemoteValue_has_group_address(rv, group_address) ==
    \/ rv.group_address = group_address
    \/ rv.group_address_state = group_address

RemoteValue_payload_valid(rv, payload) ==
    /\ payload.type = "DPTArray"
    /\ Len(payload.value) = rv.payload_length

\* whether process() of the remote value accepts the telegram
RemoteValue_accepts(rv, telegram) ==
    /\ RemoteValue_has_group_address(rv, telegram.group_address)
    /\ RemoteValue_payload_valid(rv, telegram.payload)

\* the remote value after process(telegram)
RemoteValue_process(rv, telegram) ==
    IF RemoteValue_accepts(rv, telegram)
    THEN [rv EXCEPT !.payload = telegram.payload]
    ELSE rv

RemoteValue_initialized(rv) == rv.payload # NoPayload

\* state address if there is one, else the write address, else nothing
RemoteValue_state_addresses(rv) ==
    IF rv.group_address_state # None THEN << rv.group_address_state >>
    ELSE IF rv.group_address # None THEN << rv.group_address >>
    ELSE << >>

\* Python's None as a value: nothing; a value v is << v >>
NoValue == << >>

\* temperatures are held in hundredths of a degree, so that 0.1 is TenthDegree
\* and 0.5 is HalfDegree, and the arithmetic on them is exact
TenthDegree == 10

HalfDegree == 50

\* DPT 9.001, two bytes MEEEEMMM MMMMMMMM: 0.01 * mantissa * 2^exponent
DPTTemperature_from_knx(raw) ==
    LET exponent == (raw[1] \div 8) % 16
        mantissa == (raw[1] % 8) * 256 + raw[2]
        signed == IF raw[1] >= 128 THEN mantissa - 2048 ELSE mantissa
    IN  signed * 2 ^ exponent

\* DPT 6.010, one byte in two's complement
DPTValue1Count_from_knx(raw) == IF raw[1] >= 128 THEN raw[1] - 256 ELSE raw[1]

DPTValue1Count_to_knx(value) == << value % 256 >>

\* RemoteValue.value: None until a payload is held, then its decoding
RemoteValue_value(rv) ==
    IF rv.payload = NoPayload THEN NoValue
    ELSE IF rv.payload_length = 2 THEN << DPTTemperature_from_knx(rv.payload.value) >>
    ELSE << DPTValue1Count_from_knx(rv.payload.value) >>

\* the telegram RemoteValue.set(value) of the setpoint shift sends
RemoteValue_set_sends(rv, value) ==
    Telegram(rv.group_address, DPTArray(DPTValue1Count_to_knx(value)))

\* the remote value after set(value)
RemoteValue_set(rv, value) ==
    [rv EXCEPT !.payload = DPTArray(DPTValue1Count_to_knx(value))]

VARIABLES
    name,
    printed,
    tasks,
    group_address_operation_mode,
    group_address_operation_mode_state,
    group_address_operation_mode_protection,
    group_address_operation_mode_night,
    group_address_operation_mode_comfort,
    group_address_controller_status,
    group_address_controller_status_state,
    supports_operation_mode,
    operation_mode,
    temperature,
    target_temperature,
    setpoint,
    setpoint_shift,
    call,
    raised,
    returned,
    sent,
    notified,
    branch,
    before,
    tick

vars ==
    << name,
       printed,
       tasks,
       group_address_operation_mode,
       group_address_operation_mode_state,
       group_address_operation_mode_protection,
       group_address_operation_mode_night,
       group_address_operation_mode_comfort,
       group_address_controller_status,
       group_address_controller_status_state,
       supports_operation_mode,
       operation_mode,
       temperature,
       target_temperature,
       setpoint,
       setpoint_shift,
       call,
       raised,
       returned,
       sent,
       notified,
       branch,
       before,
       tick >>

\* the fields fixed by the constructor
config_vars ==
    << name,
       group_address_operation_mode,
       group_address_operation_mode_state,
       group_address_operation_mode_protection,
       group_address_operation_mode_night,
       group_address_operation_mode_comfort,
       group_address_controller_status,
       group_address_controller_status_state,
       supports_operation_mode >>

\* the names of the controllers: the one the code prints for, and another
Names == {"Kitchen.Thermostat", "Livingroom.Thermostat"}

\* the name of the controller where the name is not what is looked at
DefaultName == "Livingroom.Thermostat"

\* the calls that run concurrently on one controller
TaskIds == 1..2

\* a task that has not been started: no coroutine. A coroutine that runs is at
\* pc >= 1, one that has ended is at pc 0 again; `updated` says that it has
\* run _set_internal_operation_mode
NoTask == [op |-> "none", arg |-> "-", pc |-> 0, raised |-> "none", updated |-> FALSE]

NoTasks == [t \in TaskIds |-> NoTask]

\* the value of `call` when no call has been made since the constructor or
\* since the caller took the results of the last one
NoCall == [op |-> "none", arg |-> "-"]

\* the mutable fields, as `before` holds them for the state in which the last
\* call started
Fields ==
    [operation_mode |-> operation_mode,
     temperature |-> temperature.payload,
     target_temperature |-> target_temperature.payload,
     setpoint |-> setpoint.payload,
     setpoint_shift |-> setpoint_shift.payload]

\* ------------------------------------------------------------------------
\* Configurations
\* ------------------------------------------------------------------------

\* the configuration that gives the options in S the addresses of plan
Config(S, plan) == [o \in Range(Options) |-> IF o \in S THEN plan[o] ELSE None]

OwnPlan == [o \in Range(Options) |-> OwnAddress(o)]

\* every choice of mode and status addresses, no channel
ModeConfigs == {Config(S, OwnPlan) : S \in SUBSET Range(ModeOptions)}

\* every choice of channel addresses, no mode or status address
ChannelConfigs == {Config(S, OwnPlan) : S \in SUBSET Range(ChannelOptions)}

\* one channel address next to a mode and a status address, and all options
MixedConfigs ==
    {Config(Range(Options), OwnPlan)}
        \cup {Config({c, m, s}, OwnPlan) :
                c \in Range(ChannelOptions),
                m \in {"group_address_operation_mode", "group_address_operation_mode_state"},
                s \in {"group_address_controller_status",
                       "group_address_controller_status_state"}}

\* two options on one shared address
SharedPair(o1, o2) == Config({o1, o2}, [o \in Range(Options) |-> OwnAddress(o1)])

PairConfigs == {SharedPair(o1, o2) : o1 \in Range(Options), o2 \in Range(Options)}

\* a mode or status option and any option on one shared address
ModePairConfigs == {SharedPair(o1, o2) : o1 \in Range(ModeOptions), o2 \in Range(Options)}

\* all options on one shared address
SharedConfig == Config(Range(Options), [o \in Range(Options) |-> 1])

Configs == ModeConfigs \cup ChannelConfigs \cup MixedConfigs \cup PairConfigs \cup {SharedConfig}

\* the options on whose addresses process reads the operation mode
InboundModeOptions ==
    {"group_address_operation_mode", "group_address_operation_mode_state",
     "group_address_controller_status", "group_address_controller_status_state"}

\* every choice of addresses on which process reads the operation mode
InboundConfigs == {Config(S, OwnPlan) : S \in SUBSET InboundModeOptions}

\* the configurations of the controllers whose calls follow each other directly
SeqConfigs == InboundConfigs \cup ModePairConfigs

\* ------------------------------------------------------------------------
\* Climate.__init__
\* ------------------------------------------------------------------------

InitWith(config) ==
        /\ group_address_operation_mode = config["group_address_operation_mode"]
        /\ group_address_operation_mode_state = config["group_address_operation_mode_state"]
        /\ group_address_operation_mode_protection =
                config["group_address_operation_mode_protection"]
        /\ group_address_operation_mode_night = config["group_address_operation_mode_night"]
        /\ group_address_operation_mode_comfort = config["group_address_operation_mode_comfort"]
        /\ group_address_controller_status = config["group_address_controller_status"]
        /\ group_address_controller_status_state =
                config["group_address_controller_status_state"]
        /\ operation_mode = "STANDBY"
        /\ temperature = RemoteValue(config["group_address_temperature"], None, 2)
        /\ target_temperature = RemoteValue(config["group_address_target_temperature"], None, 2)
        /\ setpoint = RemoteValue(config["group_address_setpoint"], None, 2)
        /\ setpoint_shift =
                RemoteValue(config["group_address_setpoint_shift"],
                            config["group_address_setpoint_shift_state"], 1)
        /\ supports_operation_mode =
                (\/ config["group_address_operation_mode"] # None
                 \/ config["group_address_operation_mode_state"] # None
                 \/ config["group_address_operation_mode_protection"] # None
                 \/ config["group_address_operation_mode_night"] # None
                 \/ config["group_address_operation_mode_comfort"] # None
                 \/ config["group_address_controller_status"] # None
                 \/ config["group_address_controller_status_state"] # None)
        /\ printed = << >>
        /\ tasks = NoTasks
        /\ call = NoCall
        /\ raised = "none"
        /\ returned = << >>
        /\ sent = << >>
        /\ notified = << >>
        /\ branch = "none"
        /\ tick = 0
        /\ before = [operation_mode |-> "STANDBY",
                     temperature |-> NoPayload,
                     target_temperature |-> NoPayload,
                     setpoint |-> NoPayload,
                     setpoint_shift |-> NoPayload]

Init == \E config \in Configs : InitWith(config) /\ name = DefaultName

\* ------------------------------------------------------------------------
\* Climate.has_group_address
\* ------------------------------------------------------------------------

has_group_address(group_address) ==
    \/ RemoteValue_has_group_address(temperature, group_address)
    \/ RemoteValue_has_group_address(target_temperature, group_address)
    \/ RemoteValue_has_group_address(setpoint, group_address)
    \/ RemoteValue_has_group_address(setpoint_shift, group_address)
    \/ group_address_operation_mode = group_address
    \/ group_address_operation_mode_state = group_address
    \/ group_address_operation_mode_protection = group_address
    \/ group_address_operation_mode_night = group_address
    \/ group_address_operation_mode_comfort = group_address
    \/ group_address_controller_status = group_address
    \/ group_address_controller_status_state = group_address

\* the group addresses on which telegrams arrive: those of this device and
\* those of other devices
BusAddresses ==
    {a \in 1..Len(Options) : has_group_address(a)} \cup ForeignAddresses

\* ------------------------------------------------------------------------
\* Climate._set_internal_operation_mode
\* ------------------------------------------------------------------------

\* the outcome of a call that ran to its end
Outcome(mode, notifications) ==
    [raised |-> "none", operation_mode |-> mode, notified |-> notifications]

\* the outcome of a call that raised
Raise(exception) ==
    [raised |-> exception, operation_mode |-> operation_mode, notified |-> << >>]

\* mutant: the hooks are called whether or not the mode changed
_set_internal_operation_mode_always(new_mode) ==
    Outcome(new_mode, << "operation_mode" >>)

_set_internal_operation_mode(new_mode) ==
    IF new_mode # operation_mode
    THEN Outcome(new_mode, << "operation_mode" >>)
    ELSE Outcome(operation_mode, << >>)

\* ------------------------------------------------------------------------
\* Climate.set_operation_mode
\* ------------------------------------------------------------------------

\* one guarded `yield from self.send(group_address, payload)`
SendIf(configured, group_address, payload) ==
    IF configured THEN << Telegram(group_address, payload) >> ELSE << >>

\* mutant: the night flag is computed like the comfort flag
set_operation_mode_sends_night_as_comfort(new_mode) ==
    SendIf(group_address_operation_mode # None,
           group_address_operation_mode,
           DPTArray(DPTHVACMode_to_knx(new_mode)))
    \o SendIf(group_address_operation_mode_protection # None,
              group_address_operation_mode_protection,
              DPTBinary(Bool2Bit(new_mode = "FROST_PROTECTION")))
    \o SendIf(group_address_operation_mode_night # None,
              group_address_operation_mode_night,
              DPTBinary(Bool2Bit(new_mode = "COMFORT")))
    \o SendIf(group_address_operation_mode_comfort # None,
              group_address_operation_mode_comfort,
              DPTBinary(Bool2Bit(new_mode = "COMFORT")))
    \o SendIf(group_address_controller_status # None,
              group_address_controller_status,
              DPTArray(DPTControllerStatus_to_knx(new_mode)))

\* mutant: nothing is sent to the controller status address
set_operation_mode_sends_no_status(new_mode) ==
    SendIf(group_address_operation_mode # None,
           group_address_operation_mode,
           DPTArray(DPTHVACMode_to_knx(new_mode)))
    \o SendIf(group_address_operation_mode_protection # None,
              group_address_operation_mode_protection,
              DPTBinary(Bool2Bit(new_mode = "FROST_PROTECTION")))
    \o SendIf(group_address_operation_mode_night # None,
              group_address_operation_mode_night,
              DPTBinary(Bool2Bit(new_mode = "NIGHT")))
    \o SendIf(group_address_operation_mode_comfort # None,
              group_address_operation_mode_comfort,
              DPTBinary(Bool2Bit(new_mode = "COMFORT")))

\* the telegrams set_operation_mode(new_mode) sends, in the order it sends them
set_operation_mode_sends(new_mode) ==
    SendIf(group_address_operation_mode # None,
           group_address_operation_mode,
           DPTArray(DPTHVACMode_to_knx(new_mode)))
    \o SendIf(group_address_operation_mode_protection # None,
              group_address_operation_mode_protection,
              DPTBinary(Bool2Bit(new_mode = "FROST_PROTECTION")))
    \o SendIf(group_address_operation_mode_night # None,
              group_address_operation_mode_night,
              DPTBinary(Bool2Bit(new_mode = "NIGHT")))
    \o SendIf(group_address_operation_mode_comfort # None,
              group_address_operation_mode_comfort,
              DPTBinary(Bool2Bit(new_mode = "COMFORT")))
    \o SendIf(group_address_controller_status # None,
              group_address_controller_status,
              DPTArray(DPTControllerStatus_to_knx(new_mode)))

\* mutant: nothing is sent when the mode is the current one already
set_operation_mode_only_on_change(new_mode) ==
    /\ before' = Fields
    /\ tick' = 1 - tick
    /\ printed' = << >>
    /\ UNCHANGED tasks
    /\ call' = [op |-> "set_operation_mode", arg |-> new_mode]
    /\ IF ~supports_operation_mode \/ new_mode = operation_mode
       THEN /\ sent' = << >>
            /\ notified' = << >>
            /\ UNCHANGED operation_mode
       ELSE LET out == _set_internal_operation_mode(new_mode) IN
            /\ sent' = set_operation_mode_sends(new_mode)
            /\ operation_mode' = out.operation_mode
            /\ notified' = out.notified
    /\ raised' = "none"
    /\ returned' = << >>
    /\ branch' = "none"
    /\ UNCHANGED << config_vars, temperature, target_temperature, setpoint, setpoint_shift >>

\* mutant: supports_operation_mode is not looked at
set_operation_mode_unguarded(new_mode) ==
    LET out == _set_internal_operation_mode(new_mode) IN
    /\ before' = Fields
    /\ tick' = 1 - tick
    /\ printed' = << >>
    /\ UNCHANGED tasks
    /\ call' = [op |-> "set_operation_mode", arg |-> new_mode]
    /\ sent' = set_operation_mode_sends(new_mode)
    /\ operation_mode' = out.operation_mode
    /\ notified' = out.notified
    /\ raised' = "none"
    /\ returned' = << >>
    /\ branch' = "none"
    /\ UNCHANGED << config_vars, temperature, target_temperature, setpoint, setpoint_shift >>

set_operation_mode(new_mode) ==
    /\ before' = Fields
    /\ tick' = 1 - tick
    /\ printed' = << >>
    /\ UNCHANGED tasks
    /\ call' = [op |-> "set_operation_mode", arg |-> new_mode]
    /\ IF ~supports_operation_mode
       THEN /\ sent' = << >>
            /\ notified' = << >>
            /\ UNCHANGED operation_mode
       ELSE LET out == _set_internal_operation_mode(new_mode) IN
            /\ sent' = set_operation_mode_sends(new_mode)
            /\ operation_mode' = out.operation_mode
            /\ notified' = out.notified
    /\ raised' = "none"
    /\ returned' = << >>
    /\ branch' = "none"
    /\ UNCHANGED << config_vars, temperature, target_temperature, setpoint, setpoint_shift >>

\* set_operation_mode(new_mode) when Device.send raises for the telegram at
\* position `failing` of those it sends: no statement of 171-194 catches it,
\* so the call ends there, with the telegrams up to that one handed to send
set_operation_mode_send_raises(new_mode, failing) ==
    /\ supports_operation_mode
    /\ failing \in DOMAIN set_operation_mode_sends(new_mode)
    /\ before' = Fields
    /\ tick' = 1 - tick
    /\ printed' = << >>
    /\ UNCHANGED tasks
    /\ call' = [op |-> "set_operation_mode", arg |-> new_mode]
    /\ sent' = SubSeq(set_operation_mode_sends(new_mode), 1, failing)
    /\ raised' = "SendError"
    /\ notified' = << >>
    /\ returned' = << >>
    /\ branch' = "none"
    /\ UNCHANGED << config_vars, operation_mode,
                    temperature, target_temperature, setpoint, setpoint_shift >>

\* ------------------------------------------------------------------------
\* Climate.get_supported_operation_modes
\* ------------------------------------------------------------------------

AppendIf(seq, configured, element) ==
    IF configured THEN Append(seq, element) ELSE seq

\* mutant: STANDBY is appended before the flags are looked at
get_supported_operation_modes_standby_first ==
    IF ~supports_operation_mode THEN << >>
    ELSE IF group_address_operation_mode # None THEN HVACOperationMode
    ELSE IF group_address_controller_status # None THEN HVACOperationMode
    ELSE LET modes1 == << "STANDBY" >>
             modes2 == AppendIf(modes1, group_address_operation_mode_comfort # None, "COMFORT")
             modes3 == AppendIf(modes2, group_address_operation_mode_night # None, "NIGHT")
         IN  AppendIf(modes3, group_address_operation_mode_protection # None,
                      "FROST_PROTECTION")

\* mutant: the controller status address does not give the whole enumeration
get_supported_operation_modes_no_status ==
    IF ~supports_operation_mode THEN << >>
    ELSE IF group_address_operation_mode # None THEN HVACOperationMode
    ELSE LET modes1 == AppendIf(<< >>, group_address_operation_mode_comfort # None, "COMFORT")
             modes2 == Append(modes1, "STANDBY")
             modes3 == AppendIf(modes2, group_address_operation_mode_night # None, "NIGHT")
         IN  AppendIf(modes3, group_address_operation_mode_protection # None,
                      "FROST_PROTECTION")

get_supported_operation_modes ==
    IF ~supports_operation_mode THEN << >>
    ELSE IF group_address_operation_mode # None THEN HVACOperationMode
    ELSE IF group_address_controller_status # None THEN HVACOperationMode
    ELSE LET modes1 == AppendIf(<< >>, group_address_operation_mode_comfort # None, "COMFORT")
             modes2 == Append(modes1, "STANDBY")
             modes3 == AppendIf(modes2, group_address_operation_mode_night # None, "NIGHT")
         IN  AppendIf(modes3, group_address_operation_mode_protection # None,
                      "FROST_PROTECTION")

GetSupportedOperationModes ==
    /\ before' = Fields
    /\ tick' = 1 - tick
    /\ printed' = << >>
    /\ UNCHANGED tasks
    /\ call' = [op |-> "get_supported_operation_modes", arg |-> "-"]
    /\ returned' = get_supported_operation_modes
    /\ raised' = "none"
    /\ sent' = << >>
    /\ notified' = << >>
    /\ branch' = "none"
    /\ UNCHANGED << config_vars, operation_mode,
                    temperature, target_temperature, setpoint, setpoint_shift >>

\* ------------------------------------------------------------------------
\* Climate.state_addresses
\* ------------------------------------------------------------------------

\* mutant: the write addresses are polled when they are configured
state_addresses_write_first ==
    LET channels ==
            RemoteValue_state_addresses(temperature)
            \o RemoteValue_state_addresses(target_temperature)
            \o RemoteValue_state_addresses(setpoint)
            \o RemoteValue_state_addresses(setpoint_shift)
        mode ==
            IF group_address_operation_mode # None
            THEN << group_address_operation_mode >>
            ELSE IF group_address_operation_mode_state # None
            THEN << group_address_operation_mode_state >>
            ELSE << >>
        status ==
            IF group_address_controller_status # None
            THEN << group_address_controller_status >>
            ELSE IF group_address_controller_status_state # None
            THEN << group_address_controller_status_state >>
            ELSE << >>
    IN  IF supports_operation_mode THEN channels \o mode \o status ELSE channels

state_addresses ==
    LET channels ==
            RemoteValue_state_addresses(temperature)
            \o RemoteValue_state_addresses(target_temperature)
            \o RemoteValue_state_addresses(setpoint)
            \o RemoteValue_state_addresses(setpoint_shift)
        mode ==
            IF group_address_operation_mode_state # None
            THEN << group_address_operation_mode_state >>
            ELSE IF group_address_operation_mode # None
            THEN << group_address_operation_mode >>
            ELSE << >>
        status ==
            IF group_address_controller_status_state # None
            THEN << group_address_controller_status_state >>
            ELSE IF group_address_controller_status # None
            THEN << group_address_controller_status >>
            ELSE << >>
    IN  IF supports_operation_mode THEN channels \o mode \o status ELSE channels

StateAddresses ==
    /\ before' = Fields
    /\ tick' = 1 - tick
    /\ printed' = << >>
    /\ UNCHANGED tasks
    /\ call' = [op |-> "state_addresses", arg |-> "-"]
    /\ returned' = state_addresses
    /\ raised' = "none"
    /\ sent' = << >>
    /\ notified' = << >>
    /\ branch' = "none"
    /\ UNCHANGED << config_vars, operation_mode,
                    temperature, target_temperature, setpoint, setpoint_shift >>

\* ------------------------------------------------------------------------
\* Climate.process
\* ------------------------------------------------------------------------

\* mutant: the length of the array is not tested
OneByteArray_any_length(payload) == payload.type = "DPTArray"

\* the payload test of _process_operation_mode and _process_controller_status
OneByteArray(payload) ==
    /\ payload.type = "DPTArray"
    /\ Len(payload.value) = 1

\* mutant: the payload is decoded as a controller status
_process_operation_mode_as_status(telegram) ==
    IF ~OneByteArray(telegram.payload)
    THEN Raise("CouldNotParseTelegram")
    ELSE LET new_mode == DPTControllerStatus_from_knx(telegram.payload.value) IN
         IF new_mode = Unparsable
         THEN Raise("CouldNotParseKNXIP")
         ELSE _set_internal_operation_mode(new_mode)

_process_operation_mode(telegram) ==
    IF ~OneByteArray(telegram.payload)
    THEN Raise("CouldNotParseTelegram")
    ELSE LET new_mode == DPTHVACMode_from_knx(telegram.payload.value) IN
         IF new_mode = Unparsable
         THEN Raise("CouldNotParseKNXIP")
         ELSE _set_internal_operation_mode(new_mode)

_process_controller_status(telegram) ==
    IF ~OneByteArray(telegram.payload)
    THEN Raise("CouldNotParseTelegram")
    ELSE LET new_mode == DPTControllerStatus_from_knx(telegram.payload.value) IN
         IF new_mode = Unparsable
         THEN Raise("CouldNotParseKNXIP")
         ELSE _set_internal_operation_mode(new_mode)

\* mutant: the first comparison is != for ==
IsOperationModeTelegram_unequal(telegram) ==
    \/ /\ supports_operation_mode
       /\ telegram.group_address # group_address_operation_mode
    \/ telegram.group_address = group_address_operation_mode_state

\* the first condition of process
IsOperationModeTelegram(telegram) ==
    \/ /\ supports_operation_mode
       /\ telegram.group_address = group_address_operation_mode
    \/ telegram.group_address = group_address_operation_mode_state

\* mutant: the comfort flag address is read as the controller status address
IsControllerStatusTelegram_comfort(telegram) ==
    \/ /\ supports_operation_mode
       /\ telegram.group_address = group_address_operation_mode_comfort
    \/ telegram.group_address = group_address_controller_status_state

\* the condition of the elif of process
IsControllerStatusTelegram(telegram) ==
    \/ /\ supports_operation_mode
       /\ telegram.group_address = group_address_controller_status
    \/ telegram.group_address = group_address_controller_status_state

\* mutant: the controller status addresses are tested first
process_branch_status_first(telegram) ==
    IF IsControllerStatusTelegram(telegram) THEN "controller_status"
    ELSE IF IsOperationModeTelegram(telegram) THEN "operation_mode"
    ELSE "none"

\* the branch of process the telegram takes
process_branch(telegram) ==
    IF IsOperationModeTelegram(telegram) THEN "operation_mode"
    ELSE IF IsControllerStatusTelegram(telegram) THEN "controller_status"
    ELSE "none"

\* the if / elif of process
process_mode(telegram) ==
    CASE process_branch(telegram) = "operation_mode" -> _process_operation_mode(telegram)
      [] process_branch(telegram) = "controller_status" -> _process_controller_status(telegram)
      [] OTHER -> Outcome(operation_mode, << >>)

\* `if <channel>_processed: yield from self.after_update()`
NotifyIf(processed, channel) == IF processed THEN << channel >> ELSE << >>

\* mutant: the remote values are gone through from the last to the first
process_channels_notified_reversed(telegram) ==
    NotifyIf(RemoteValue_accepts(setpoint_shift, telegram), "setpoint_shift")
    \o NotifyIf(RemoteValue_accepts(setpoint, telegram), "setpoint")
    \o NotifyIf(RemoteValue_accepts(target_temperature, telegram), "target_temperature")
    \o NotifyIf(RemoteValue_accepts(temperature, telegram), "temperature")

\* the calls of after_update for the four remote values, in the order of process
process_channels_notified(telegram) ==
    NotifyIf(RemoteValue_accepts(temperature, telegram), "temperature")
    \o NotifyIf(RemoteValue_accepts(target_temperature, telegram), "target_temperature")
    \o NotifyIf(RemoteValue_accepts(setpoint, telegram), "setpoint")
    \o NotifyIf(RemoteValue_accepts(setpoint_shift, telegram), "setpoint_shift")

\* what process prints at its end (244-249) on the controller named name_
process_prints(name_, telegram) ==
    IF name_ = "Kitchen.Thermostat"
    THEN << "-----------------------", "telegram", "self", "self.setpoint.value",
            "-----------------------" >>
    ELSE << >>

\* mutant: the controller named Kitchen.Thermostat prints and returns before
\* the remote values see the telegram
process_outcome_kitchen_returns(name_, telegram) ==
    LET out == process_mode(telegram) IN
    IF out.raised # "none" \/ name_ = "Kitchen.Thermostat"
    THEN [raised |-> out.raised,
          operation_mode |-> out.operation_mode,
          notified |-> out.notified,
          temperature |-> temperature,
          target_temperature |-> target_temperature,
          setpoint |-> setpoint,
          setpoint_shift |-> setpoint_shift,
          printed |-> IF out.raised # "none" THEN << >> ELSE process_prints(name_, telegram)]
    ELSE [raised |-> "none",
          operation_mode |-> out.operation_mode,
          notified |-> out.notified \o process_channels_notified(telegram),
          temperature |-> RemoteValue_process(temperature, telegram),
          target_temperature |-> RemoteValue_process(target_temperature, telegram),
          setpoint |-> RemoteValue_process(setpoint, telegram),
          setpoint_shift |-> RemoteValue_process(setpoint_shift, telegram),
          printed |-> process_prints(name_, telegram)]

\* what process(telegram) leaves on the controller named name_: an exception
\* of the if / elif ends the call before the remote values see the telegram
process_outcome(name_, telegram) ==
    LET out == process_mode(telegram) IN
    IF out.raised # "none"
    THEN [raised |-> out.raised,
          operation_mode |-> out.operation_mode,
          notified |-> << >>,
          temperature |-> temperature,
          target_temperature |-> target_temperature,
          setpoint |-> setpoint,
          setpoint_shift |-> setpoint_shift,
          printed |-> << >>]
    ELSE [raised |-> "none",
          operation_mode |-> out.operation_mode,
          notified |-> out.notified \o process_channels_notified(telegram),
          temperature |-> RemoteValue_process(temperature, telegram),
          target_temperature |-> RemoteValue_process(target_temperature, telegram),
          setpoint |-> RemoteValue_process(setpoint, telegram),
          setpoint_shift |-> RemoteValue_process(setpoint_shift, telegram),
          printed |-> process_prints(name_, telegram)]

process(telegram) ==
    \E out \in {process_outcome(name, telegram)} :
    /\ before' = Fields
    /\ tick' = 1 - tick
    /\ printed' = out.printed
    /\ UNCHANGED tasks
    /\ call' = [op |-> "process", arg |-> telegram]
    /\ branch' = process_branch(telegram)
    /\ raised' = out.raised
    /\ operation_mode' = out.operation_mode
    /\ notified' = out.notified
    /\ temperature' = out.temperature
    /\ target_temperature' = out.target_temperature
    /\ setpoint' = out.setpoint
    /\ setpoint_shift' = out.setpoint_shift
    /\ returned' = << >>
    /\ sent' = << >>
    /\ UNCHANGED config_vars

\* ------------------------------------------------------------------------
\* Climate.set_target_temperature_comfort, Climate.target_temperature_comfort
\* ------------------------------------------------------------------------

\* Python's int(a / b) for b > 0: the quotient, rounded toward zero
int_div(a, b) == IF a >= 0 THEN a \div b ELSE -((-a) \div b)

\* Python's `not value` for the value of a remote value: None or zero
Falsy(value) == value = NoValue \/ value[1] = 0

\* the path set_target_temperature_comfort takes: the warning it logs, or "set"
set_target_temperature_comfort_path ==
    IF Falsy(RemoteValue_value(setpoint)) THEN "Setpoint temperature not know"
    ELSE IF ~RemoteValue_initialized(setpoint_shift) THEN "Setpoint shift not know"
    ELSE "set"

\* int((target_temperature_comfort - self.setpoint.value) / 0.1)
setpoint_shift_for(target_temperature_comfort_) ==
    int_div(target_temperature_comfort_ - RemoteValue_value(setpoint)[1], TenthDegree)

set_target_temperature_comfort(target_temperature_comfort_) ==
    /\ before' = Fields
    /\ tick' = 1 - tick
    /\ printed' = << >>
    /\ UNCHANGED tasks
    /\ call' = [op |-> "set_target_temperature_comfort", arg |-> target_temperature_comfort_]
    /\ branch' = set_target_temperature_comfort_path
    /\ IF set_target_temperature_comfort_path = "set"
       THEN LET shift == setpoint_shift_for(target_temperature_comfort_) IN
            /\ sent' = << RemoteValue_set_sends(setpoint_shift, shift) >>
            /\ setpoint_shift' = RemoteValue_set(setpoint_shift, shift)
       ELSE /\ sent' = << >>
            /\ UNCHANGED setpoint_shift
    /\ notified' = << >>
    /\ raised' = "none"
    /\ returned' = << >>
    /\ UNCHANGED << config_vars, operation_mode, temperature, target_temperature, setpoint >>

\* the property on the controller named name_: the value it returns (None, or
\* setpoint + 0.5 * setpoint shift) and what it prints
target_temperature_comfort(name_) ==
    IF RemoteValue_value(setpoint) = NoValue \/ RemoteValue_value(setpoint_shift) = NoValue
    THEN [returned |-> NoValue,
          printed |-> IF name_ = "Kitchen.Thermostat"
                      THEN << "XXXXXX NO target_temperature_comfort possible" >>
                      ELSE << >>]
    ELSE [returned |->
            << RemoteValue_value(setpoint)[1]
                    + HalfDegree * RemoteValue_value(setpoint_shift)[1] >>,
          printed |-> << "XXXXXX " >>]

TargetTemperatureComfort ==
    /\ before' = Fields
    /\ tick' = 1 - tick
    /\ printed' = target_temperature_comfort(name).printed
    /\ UNCHANGED tasks
    /\ call' = [op |-> "target_temperature_comfort", arg |-> "-"]
    /\ returned' = target_temperature_comfort(name).returned
    /\ raised' = "none"
    /\ sent' = << >>
    /\ notified' = << >>
    /\ branch' = "none"
    /\ UNCHANGED << config_vars, operation_mode,
                    temperature, target_temperature, setpoint, setpoint_shift >>

\* ------------------------------------------------------------------------
\* The calls made on one controller
\* ------------------------------------------------------------------------

Calls ==
    \/ \E new_mode \in Modes : set_operation_mode(new_mode)
    \/ \E group_address \in BusAddresses, payload \in Payloads :
            process(Telegram(group_address, payload))
    \/ GetSupportedOperationModes
    \/ StateAddresses

\* the caller takes the results of the call
Return ==
    /\ call # NoCall
    /\ call' = NoCall
    /\ before' = Fields
    /\ tick' = 0
    /\ printed' = << >>
    /\ UNCHANGED tasks
    /\ raised' = "none"
    /\ returned' = << >>
    /\ sent' = << >>
    /\ notified' = << >>
    /\ branch' = "none"
    /\ UNCHANGED << config_vars, operation_mode,
                    temperature, target_temperature, setpoint, setpoint_shift >>

Next ==
    \/ /\ call = NoCall
       /\ Calls
    \/ Return

Spec == Init /\ [][Next]_vars

\* calls that follow each other directly
InitSeq == \E config \in SeqConfigs : InitWith(config) /\ name = DefaultName

NextSeq ==
    \/ \E new_mode \in Modes : set_operation_mode(new_mode)
    \/ \E group_address \in BusAddresses, payload \in Payloads :
            process(Telegram(group_address, payload))

SpecSeq == InitSeq /\ [][NextSeq]_vars

\* set_operation_mode calls that follow each other directly
NextSet == \E new_mode \in Modes : set_operation_mode(new_mode)

SpecSet == Init /\ [][NextSet]_vars

\* set_operation_mode calls on a transport whose send may raise
NextSend ==
    \/ \E new_mode \in Modes : set_operation_mode(new_mode)
    \/ \E new_mode \in Modes, failing \in 1..Len(ModeOptions) :
            set_operation_mode_send_raises(new_mode, failing)

SpecSend == Init /\ [][NextSend]_vars

\* ------------------------------------------------------------------------
\* Calls that run concurrently on one controller: coroutines of one event
\* loop, each running from one `yield from self.send(...)` or `yield from
\* self.after_update()` to the next, where another may run. Here `sent` and
\* `notified` hold what all of them have sent and notified, in order.
\* ------------------------------------------------------------------------

\* the variables that record the last call of a caller that makes one call
\* after the other
call_vars == << call, raised, returned, branch, before, tick, printed >>

\* set_operation_mode(new_mode) is called: the coroutine exists, nothing has run
StartSetOperationMode(t, new_mode) ==
    /\ tasks[t] = NoTask
    /\ tasks' = [tasks EXCEPT ![t] =
                    [op |-> "set_operation_mode", arg |-> new_mode, pc |-> 1,
                     raised |-> "none", updated |-> FALSE]]
    /\ UNCHANGED << config_vars, call_vars, operation_mode, sent, notified,
                    temperature, target_temperature, setpoint, setpoint_shift >>

\* process(telegram) is called
StartProcess(t, telegram) ==
    /\ tasks[t] = NoTask
    /\ tasks' = [tasks EXCEPT ![t] =
                    [op |-> "process", arg |-> telegram, pc |-> 1,
                     raised |-> "none", updated |-> FALSE]]
    /\ UNCHANGED << config_vars, call_vars, operation_mode, sent, notified,
                    temperature, target_temperature, setpoint, setpoint_shift >>

\* set_operation_mode runs to its next suspension: at pc within the telegrams
\* it has to send, to the send of that telegram (171-193); after them, through
\* _set_internal_operation_mode to its end (194)
SetOperationModeStep(t) ==
    LET task == tasks[t]
        sends == set_operation_mode_sends(task.arg)
        out == _set_internal_operation_mode(task.arg)
    IN  /\ task.op = "set_operation_mode"
        /\ task.pc >= 1
        /\ IF ~supports_operation_mode
           THEN /\ tasks' = [tasks EXCEPT ![t].pc = 0]
                /\ UNCHANGED << operation_mode, sent, notified >>
           ELSE IF task.pc <= Len(sends)
           THEN /\ sent' = Append(sent, sends[task.pc])
                /\ tasks' = [tasks EXCEPT ![t].pc = task.pc + 1]
                /\ UNCHANGED << operation_mode, notified >>
           ELSE /\ operation_mode' = out.operation_mode
                /\ notified' = notified \o out.notified
                /\ tasks' = [tasks EXCEPT ![t].pc = 0, ![t].updated = TRUE]
                /\ UNCHANGED sent
        /\ UNCHANGED << config_vars, call_vars,
                        temperature, target_temperature, setpoint, setpoint_shift >>

\* the stages of process: the if / elif, then the four remote values
ProcessStages ==
    << "operation_mode", "temperature", "target_temperature", "setpoint", "setpoint_shift" >>

\* the remote value of a stage
StageRemoteValue(stage) ==
    CASE stage = "temperature" -> temperature
      [] stage = "target_temperature" -> target_temperature
      [] stage = "setpoint" -> setpoint
      [] stage = "setpoint_shift" -> setpoint_shift

\* the stage raises or calls after_update, so that process leaves off there
StageActs(k, telegram) ==
    IF k = 1
    THEN process_mode(telegram).raised # "none" \/ process_mode(telegram).notified # << >>
    ELSE RemoteValue_accepts(StageRemoteValue(ProcessStages[k]), telegram)

\* the remote value of stage k after a step of process that stops at `stage`
StageProcessed(k, stage, telegram) ==
    IF k = stage
    THEN RemoteValue_process(StageRemoteValue(ProcessStages[k]), telegram)
    ELSE StageRemoteValue(ProcessStages[k])

\* process runs to its next suspension: the next stage from pc on that calls
\* after_update (or raises), or else to its end
ProcessStep(t) ==
    LET task == tasks[t]
        acting == {k \in task.pc..Len(ProcessStages) : StageActs(k, task.arg)}
        stage == IF acting = {} THEN 0 ELSE CHOOSE k \in acting : \A j \in acting : k <= j
        out == process_mode(task.arg)
        reads == task.pc = 1 /\ process_branch(task.arg) # "none" /\ out.raised = "none"
    IN  /\ task.op = "process"
        /\ task.pc >= 1
        /\ IF stage = 1 /\ out.raised # "none"
           THEN /\ tasks' = [tasks EXCEPT ![t].pc = 0, ![t].raised = out.raised]
                /\ UNCHANGED << operation_mode, notified,
                                temperature, target_temperature, setpoint, setpoint_shift >>
           ELSE /\ tasks' = [tasks EXCEPT ![t].pc = (IF stage = 0 THEN 0 ELSE stage + 1),
                                          ![t].updated = (task.updated \/ reads)]
                /\ operation_mode' = (IF stage = 1 THEN out.operation_mode ELSE operation_mode)
                /\ notified' =
                        (IF stage = 0 THEN notified ELSE Append(notified, ProcessStages[stage]))
                /\ temperature' = StageProcessed(2, stage, task.arg)
                /\ target_temperature' = StageProcessed(3, stage, task.arg)
                /\ setpoint' = StageProcessed(4, stage, task.arg)
                /\ setpoint_shift' = StageProcessed(5, stage, task.arg)
        /\ UNCHANGED << config_vars, call_vars, sent >>

\* the generic mode address with the comfort flag and the controller status
\* address or without, and the generic mode address shared with the setpoint
\* shift
ConcurrentConfigs ==
    {Config({"group_address_operation_mode"} \cup S, OwnPlan) :
        S \in SUBSET {"group_address_operation_mode_comfort",
                      "group_address_controller_status"}}
        \cup {SharedPair("group_address_operation_mode", "group_address_setpoint_shift"),
              Config({"group_address_setpoint"}, OwnPlan)}

ConcurrentPayloads == {DPTArray(<< b >>) : b \in 0..MaxByte} \cup {DPTBinary(1)}

InitConcurrent == \E config \in ConcurrentConfigs : InitWith(config) /\ name = DefaultName

NextConcurrent ==
    \E t \in TaskIds :
        \/ \E new_mode \in Modes : StartSetOperationMode(t, new_mode)
        \/ \E group_address \in BusAddresses, payload \in ConcurrentPayloads :
                StartProcess(t, Telegram(group_address, payload))
        \/ SetOperationModeStep(t)
        \/ ProcessStep(t)

SpecConcurrent == InitConcurrent /\ [][NextConcurrent]_vars

\* the comfort temperature: setpoint and setpoint shift telegrams, the command
\* and the property, on controllers of either name

\* setpoint payloads are <<0, b>> with b in 0..MaxSetpoint (hundredths)
MaxSetpoint == 1

\* setpoint shift payloads are <<b>> with b in 0..MaxShift, and the targets
\* are up to MaxShift tenths below or above a setpoint
MaxShift == 1

ComfortOptions ==
    {"group_address_setpoint", "group_address_setpoint_shift",
     "group_address_setpoint_shift_state"}

\* every choice of setpoint and setpoint shift addresses, with and without
\* the generic mode address
ComfortConfigs ==
    {Config(S \cup M, OwnPlan) :
        S \in SUBSET ComfortOptions, M \in {{}, {"group_address_operation_mode"}}}

ComfortPayloads ==
    {DPTArray(<< 0, b >>) : b \in 0..MaxSetpoint}
        \cup {DPTArray(<< b >>) : b \in 0..MaxShift}

\* a setpoint, or up to MaxShift tenths of a degree below or above one
ComfortTargets ==
    {b + TenthDegree * k : b \in 0..MaxSetpoint, k \in (-MaxShift)..MaxShift}

InitComfort == \E config \in ComfortConfigs, n \in Names : InitWith(config) /\ name = n

ComfortCalls ==
    \/ \E group_address \in BusAddresses, payload \in ComfortPayloads :
            process(Telegram(group_address, payload))
    \/ \E target \in ComfortTargets : set_target_temperature_comfort(target)
    \/ TargetTemperatureComfort
    \/ \E new_mode \in Modes : set_operation_mode(new_mode)

NextComfort ==
    \/ /\ call = NoCall
       /\ ComfortCalls
    \/ Return

SpecComfort == InitComfort /\ [][NextComfort]_vars

\* ------------------------------------------------------------------------
\* Properties
\* ------------------------------------------------------------------------

\* how many of the notifications of the last call came from
\* _set_internal_operation_mode
ModeNotifications ==
    Cardinality({i \in DOMAIN notified : notified[i] = "operation_mode"})

IsSetOperationMode == call.op = "set_operation_mode"

IsProcess == call.op = "process"

\* the payloads held by the four remote values are those of before the call
ChannelsUnchanged ==
    /\ temperature.payload = before.temperature
    /\ target_temperature.payload = before.target_temperature
    /\ setpoint.payload = before.setpoint
    /\ setpoint_shift.payload = before.setpoint_shift

NotNone(group_address) == group_address # None

\* C1: a call that changes operation_mode makes exactly one change
\* notification for it, however many addresses it sends to, and a call that
\* leaves operation_mode as it was makes none.
C1_OneNotificationPerChange ==
    ModeNotifications = IF operation_mode # before.operation_mode THEN 1 ELSE 0

C1_Witness ==
    /\ IsSetOperationMode
    /\ Len(sent) = 5
    /\ operation_mode # before.operation_mode
    /\ notified = << "operation_mode" >>

\* the addresses set_operation_mode has to send to, in its order
ConfiguredWriteAddresses ==
    SelectSeq(<< group_address_operation_mode,
                 group_address_operation_mode_protection,
                 group_address_operation_mode_night,
                 group_address_operation_mode_comfort,
                 group_address_controller_status >>, NotNone)

SentAddresses(telegrams) == [i \in DOMAIN telegrams |-> telegrams[i].group_address]

\* the step is a set_operation_mode(m) right after a set_operation_mode(m)
SameModeAgain ==
    /\ supports_operation_mode
    /\ IsSetOperationMode
    /\ call'.op = "set_operation_mode"
    /\ call'.arg = call.arg

\* C2 as stated: set_operation_mode(m) twice in a row makes exactly one
\* notification, in the first call, and both calls send the full set.
C2_ExactlyOneNotification ==
    [][SameModeAgain =>
            /\ Len(notified) = 1
            /\ Len(notified') = 0
            /\ SentAddresses(sent) = ConfiguredWriteAddresses
            /\ sent' = sent]_vars

\* C2, amended: set_operation_mode(m) twice in a row makes one notification
\* if m differs from the operation_mode before the first call and none if
\* it equals it; the second call never makes one; both calls send the full
\* set of telegrams.
C2_NotificationInFirstCallOnly ==
    [][SameModeAgain =>
            /\ Len(notified) = (IF call.arg # before.operation_mode THEN 1 ELSE 0)
            /\ Len(notified') = 0
            /\ SentAddresses(sent) = ConfiguredWriteAddresses
            /\ sent' = sent]_vars

C2_Witness ==
    /\ IsSetOperationMode
    /\ call.arg = "NIGHT"
    /\ before.operation_mode = "NIGHT"
    /\ Len(sent) = 5
    /\ notified = << >>

\* what set_operation_mode(m) has to send: address and payload per option
ExpectedSends(m) ==
    SelectSeq(
        << Telegram(group_address_operation_mode, DPTArray(DPTHVACMode_to_knx(m))),
           Telegram(group_address_operation_mode_protection,
                    DPTBinary(IF m = "FROST_PROTECTION" THEN 1 ELSE 0)),
           Telegram(group_address_operation_mode_night,
                    DPTBinary(IF m = "NIGHT" THEN 1 ELSE 0)),
           Telegram(group_address_operation_mode_comfort,
                    DPTBinary(IF m = "COMFORT" THEN 1 ELSE 0)),
           Telegram(group_address_controller_status,
                    DPTArray(DPTControllerStatus_to_knx(m))) >>,
        LAMBDA t : t.group_address # None)

\* C3: with supports_operation_mode, set_operation_mode(m) sends one telegram
\* per configured address among generic mode, protection, night, comfort and
\* controller status, in that order, with the encoding of m or the flag of
\* m; at most one flag is set; afterwards operation_mode is m.
C3_SetOperationModeSends ==
    (IsSetOperationMode /\ supports_operation_mode) =>
        /\ sent = ExpectedSends(call.arg)
        /\ Cardinality({i \in DOMAIN sent : sent[i].payload = DPTBinary(1)}) <= 1
        /\ operation_mode = call.arg

C3_Witness ==
    /\ IsSetOperationMode
    /\ call.arg = "NIGHT"
    /\ Len(sent) = 5
    /\ sent[3].payload = DPTBinary(1)
    /\ operation_mode = "NIGHT"

\* none of the seven mode and status addresses is configured
NoModeAddress ==
    /\ group_address_operation_mode = None
    /\ group_address_operation_mode_state = None
    /\ group_address_operation_mode_protection = None
    /\ group_address_operation_mode_night = None
    /\ group_address_operation_mode_comfort = None
    /\ group_address_controller_status = None
    /\ group_address_controller_status_state = None

\* C4: with none of the seven mode and status addresses configured,
\* supports_operation_mode is false, set_operation_mode sends nothing, makes
\* no notification and leaves operation_mode STANDBY, process never takes the
\* mode or the status branch, no mode is supported and state_addresses holds
\* channel addresses only.
C4_NoModeAddressNoModeSupport ==
    NoModeAddress =>
        /\ ~supports_operation_mode
        /\ operation_mode = "STANDBY"
        /\ IsSetOperationMode => (sent = << >> /\ notified = << >>)
        /\ IsProcess => branch = "none"
        /\ get_supported_operation_modes = << >>
        /\ call.op = "get_supported_operation_modes" => returned = << >>
        /\ \A i \in DOMAIN state_addresses :
                \/ RemoteValue_has_group_address(temperature, state_addresses[i])
                \/ RemoteValue_has_group_address(target_temperature, state_addresses[i])
                \/ RemoteValue_has_group_address(setpoint, state_addresses[i])
                \/ RemoteValue_has_group_address(setpoint_shift, state_addresses[i])

C4_Witness ==
    /\ NoModeAddress
    /\ IsSetOperationMode
    /\ call.arg = "COMFORT"
    /\ setpoint.payload # NoPayload

\* the telegram address is the generic mode address or the mode state address
OnModeAddress(telegram) ==
    telegram.group_address \in
        {group_address_operation_mode, group_address_operation_mode_state}

\* the telegram address is the controller status address or its state address
OnStatusAddress(telegram) ==
    telegram.group_address \in
        {group_address_controller_status, group_address_controller_status_state}

\* C5: with supports_operation_mode, process sets operation_mode to the mode
\* codec's decoding of a telegram on the generic mode or mode state address,
\* else to the controller status codec's decoding of a telegram on the
\* controller status address or its state address; on an address of both
\* families the mode codec decides and the status codec is not applied.
C5_ProcessDecodesByAddress ==
    (IsProcess /\ supports_operation_mode) =>
        /\ OnModeAddress(call.arg) =>
                /\ branch = "operation_mode"
                /\ raised = "none" =>
                        operation_mode = DPTHVACMode_from_knx(call.arg.payload.value)
        /\ (~OnModeAddress(call.arg) /\ OnStatusAddress(call.arg)) =>
                /\ branch = "controller_status"
                /\ raised = "none" =>
                        operation_mode = DPTControllerStatus_from_knx(call.arg.payload.value)

C5_Witness ==
    /\ IsProcess
    /\ OnModeAddress(call.arg)
    /\ OnStatusAddress(call.arg)
    /\ call.arg.payload = DPTArray(<< 3 >>)
    /\ operation_mode = "NIGHT"
    /\ DPTControllerStatus_from_knx(<< 3 >>) = "STANDBY"

\* what a well-formed telegram on a mode or status address decodes to
Decoded(telegram) ==
    IF OnModeAddress(telegram)
    THEN DPTHVACMode_from_knx(telegram.payload.value)
    ELSE DPTControllerStatus_from_knx(telegram.payload.value)

\* the last call was process of a telegram on a mode or status address whose
\* payload is not an array of one byte
MalformedModeTelegram ==
    /\ IsProcess
    /\ OnModeAddress(call.arg) \/ OnStatusAddress(call.arg)
    /\ ~(call.arg.payload.type = "DPTArray" /\ Len(call.arg.payload.value) = 1)

\* C6: process of a telegram on a mode or status address whose payload is
\* not an array of one byte raises CouldNotParseTelegram, which a telegram
\* that matches nothing does not; operation_mode and the channel values stay
\* as they were and no notification is made; a well-formed telegram on the
\* same address right after it is processed and sets operation_mode.
C6_MalformedTelegramRaises ==
    [][/\ MalformedModeTelegram' =>
                /\ raised' = "CouldNotParseTelegram"
                /\ operation_mode' = operation_mode
                /\ temperature' = temperature
                /\ target_temperature' = target_temperature
                /\ setpoint' = setpoint
                /\ setpoint_shift' = setpoint_shift
                /\ notified' = << >>
       /\ (IsProcess' /\ ~has_group_address(call'.arg.group_address)) => raised' = "none"
       /\ (/\ MalformedModeTelegram
           /\ IsProcess'
           /\ call'.arg.group_address = call.arg.group_address
           /\ call'.arg.payload.type = "DPTArray"
           /\ Len(call'.arg.payload.value) = 1
           /\ Decoded(call'.arg) # Unparsable) =>
                /\ raised' = "none"
                /\ operation_mode' = Decoded(call'.arg)]_vars

C6_Witness ==
    /\ MalformedModeTelegram
    /\ raised = "CouldNotParseTelegram"
    /\ call.arg.payload.type = "DPTBinary"
    /\ RemoteValue_has_group_address(setpoint_shift, call.arg.group_address)
    /\ operation_mode = "NIGHT"

\* C7: process of a telegram on an address that no remote value and no mode
\* or status option has changes neither operation_mode nor a channel value
\* and makes no notification.
C7_UnmatchedTelegramIgnored ==
    (IsProcess /\ ~has_group_address(call.arg.group_address)) =>
        /\ operation_mode = before.operation_mode
        /\ ChannelsUnchanged
        /\ notified = << >>
        /\ raised = "none"

C7_Witness ==
    /\ IsProcess
    /\ ~has_group_address(call.arg.group_address)
    /\ call.arg.payload = DPTArray(<< 1 >>)
    /\ operation_mode = "NIGHT"
    /\ setpoint_shift.payload # NoPayload

\* the telegram address is a protection, night or comfort flag address and no
\* generic mode, controller status or channel address
OnFlagAddressOnly(telegram) ==
    /\ telegram.group_address \in
            {group_address_operation_mode_protection,
             group_address_operation_mode_night,
             group_address_operation_mode_comfort}
    /\ ~OnModeAddress(telegram)
    /\ ~OnStatusAddress(telegram)
    /\ ~RemoteValue_has_group_address(temperature, telegram.group_address)
    /\ ~RemoteValue_has_group_address(target_temperature, telegram.group_address)
    /\ ~RemoteValue_has_group_address(setpoint, telegram.group_address)
    /\ ~RemoteValue_has_group_address(setpoint_shift, telegram.group_address)

\* C8: process of a telegram on a protection, night or comfort flag address
\* takes no branch, leaves operation_mode as it was, makes no notification
\* and raises nothing, whatever the payload.
C8_FlagTelegramIgnored ==
    (IsProcess /\ OnFlagAddressOnly(call.arg)) =>
        /\ branch = "none"
        /\ operation_mode = before.operation_mode
        /\ notified = << >>
        /\ raised = "none"

C8_Witness ==
    /\ IsProcess
    /\ OnFlagAddressOnly(call.arg)
    /\ call.arg.group_address = group_address_operation_mode_night
    /\ call.arg.payload = DPTBinary(1)
    /\ operation_mode = "COMFORT"

\* the modes the flag addresses give, in the order of get_supported_operation_modes
FlagModes ==
    SelectSeq(<< "COMFORT", "STANDBY", "NIGHT", "FROST_PROTECTION" >>,
              LAMBDA m :
                \/ m = "STANDBY"
                \/ m = "COMFORT" /\ group_address_operation_mode_comfort # None
                \/ m = "NIGHT" /\ group_address_operation_mode_night # None
                \/ m = "FROST_PROTECTION" /\ group_address_operation_mode_protection # None)

\* C9: get_supported_operation_modes is decided by the configuration: nothing
\* without supports_operation_mode, the whole enumeration with the generic
\* mode address or the controller status address, else COMFORT if its flag
\* address is configured, STANDBY, NIGHT if configured, FROST_PROTECTION if
\* configured, in that order.
C9_SupportedOperationModes ==
    /\ NoModeAddress => get_supported_operation_modes = << >>
    /\ (group_address_operation_mode # None \/ group_address_controller_status # None) =>
            /\ get_supported_operation_modes = HVACOperationMode
            /\ Len(get_supported_operation_modes) = Cardinality(Modes)
    /\ (/\ ~NoModeAddress
        /\ group_address_operation_mode = None
        /\ group_address_controller_status = None) =>
            get_supported_operation_modes = FlagModes
    /\ call.op = "get_supported_operation_modes" => returned = get_supported_operation_modes

C9_Witness ==
    /\ call.op = "get_supported_operation_modes"
    /\ returned = << "COMFORT", "STANDBY" >>
    /\ group_address_operation_mode_comfort # None
    /\ operation_mode = "NIGHT"

\* the state address if it is configured, else the write address
Preferred(state_address, write_address) ==
    IF state_address # None THEN state_address ELSE write_address

\* C10: state_addresses lists the poll address of temperature, target
\* temperature, setpoint and setpoint shift, then with supports_operation_mode
\* the mode state address or else the generic mode address, then the
\* controller status state address or else the controller status address,
\* leaving out what is not configured; never a write address whose state
\* address is configured, never a flag address.
C10_StateAddresses ==
    /\ state_addresses =
            RemoteValue_state_addresses(temperature)
            \o RemoteValue_state_addresses(target_temperature)
            \o RemoteValue_state_addresses(setpoint)
            \o RemoteValue_state_addresses(setpoint_shift)
            \o SelectSeq(
                << IF supports_operation_mode
                   THEN Preferred(group_address_operation_mode_state,
                                  group_address_operation_mode)
                   ELSE None,
                   IF supports_operation_mode
                   THEN Preferred(group_address_controller_status_state,
                                  group_address_controller_status)
                   ELSE None >>, NotNone)
    /\ \A a \in Range(state_addresses) :
            \/ a \in {temperature.group_address, target_temperature.group_address,
                      setpoint.group_address, setpoint_shift.group_address_state,
                      group_address_operation_mode_state,
                      group_address_controller_status_state}
            \/ a = setpoint_shift.group_address /\ setpoint_shift.group_address_state = None
            \/ a = group_address_operation_mode /\ group_address_operation_mode_state = None
            \/ a = group_address_controller_status
                    /\ group_address_controller_status_state = None
    /\ call.op = "state_addresses" => returned = state_addresses

C10_Witness ==
    /\ call.op = "state_addresses"
    /\ returned = << 1, 2, 3, 5, 7, 12 >>
    /\ group_address_operation_mode # None
    /\ group_address_operation_mode_night # None

\* the last call was set_target_temperature_comfort
IsSetTargetTemperatureComfort == call.op = "set_target_temperature_comfort"

\* C11: set_target_temperature_comfort sends an offset on the setpoint shift
\* address if and only if a setpoint has been received, whatever its value,
\* and the setpoint shift has been initialized; otherwise it sends nothing,
\* changes no field, makes no notification and raises nothing.
C11_WritesIffSetpointKnown ==
    IsSetTargetTemperatureComfort =>
        /\ raised = "none"
        /\ notified = << >>
        /\ IF before.setpoint # NoPayload /\ before.setpoint_shift # NoPayload
           THEN /\ Len(sent) = 1
                /\ sent[1].group_address = setpoint_shift.group_address
                /\ sent[1].payload = setpoint_shift.payload
           ELSE /\ sent = << >>
                /\ Fields = before

\* C12: in set_operation_mode(m) a send that fails keeps neither the sends to
\* the remaining configured addresses from being attempted nor operation_mode
\* from becoming m, with its notification if that is a change.
C12_SendFailureIndependent ==
    (IsSetOperationMode /\ supports_operation_mode) =>
        /\ SentAddresses(sent) = ConfiguredWriteAddresses
        /\ operation_mode = call.arg
        /\ Len(notified) = (IF call.arg # before.operation_mode THEN 1 ELSE 0)

\* the telegram set_operation_mode(m) sends on the generic mode address
GenericModeTelegram(m) == set_operation_mode_sends(m)[1]

\* C13: with the generic mode address configured, process of the telegram
\* that set_operation_mode(m) sends on that address, in whatever state it
\* arrives, raises nothing and leaves operation_mode m.
C13_RoundTrip ==
    \A m \in Modes :
        (/\ group_address_operation_mode # None
         /\ IsProcess
         /\ call.arg = GenericModeTelegram(m)) =>
            /\ raised = "none"
            /\ operation_mode = m

C13_Witness ==
    /\ group_address_operation_mode # None
    /\ IsProcess
    /\ call.arg = GenericModeTelegram("FROST_PROTECTION")
    /\ before.operation_mode = "NIGHT"
    /\ operation_mode = "FROST_PROTECTION"
    /\ notified = << "operation_mode" >>

\* what a call leaves, but for what it printed
Unprinted(outcome) == [outcome EXCEPT !.printed = << >>]

\* C14: in every state a controller reaches, what process of any telegram and
\* a read of target_temperature_comfort leave (operation_mode, the values of
\* the remote values, the notifications, the exception, the value returned)
\* is the same for every name the controller could have, so that controllers
\* that differ in name only stay in step; set_operation_mode and
\* set_target_temperature_comfort do not read the name.
C14_NameNotInControlFlow ==
    \A n \in Names :
        /\ target_temperature_comfort(n).returned = target_temperature_comfort(name).returned
        /\ \A group_address \in BusAddresses, payload \in ComfortPayloads :
                Unprinted(process_outcome(n, Telegram(group_address, payload)))
                    = Unprinted(process_outcome(name, Telegram(group_address, payload)))

C14_Witness ==
    /\ name = "Kitchen.Thermostat"
    /\ IsProcess
    /\ printed # << >>
    /\ notified = << "setpoint" >>
    /\ operation_mode = "NIGHT"
    /\ target_temperature_comfort(name).returned # NoValue

\* what process may notify of, in the order in which it looks at it
NotificationOrder ==
    << "operation_mode", "temperature", "target_temperature", "setpoint", "setpoint_shift" >>

\* position of a notification in NotificationOrder
NotificationPosition(n) == CHOOSE i \in DOMAIN NotificationOrder : NotificationOrder[i] = n

\* C15: one process call makes at most five notifications: at most one for
\* operation_mode, from the mode branch or the controller status branch, then
\* at most one per remote value, in the order operation_mode, temperature,
\* target temperature, setpoint, setpoint shift.
C15_ProcessNotificationOrder ==
    IsProcess =>
        /\ Len(notified) <= Len(NotificationOrder)
        /\ Range(notified) \subseteq Range(NotificationOrder)
        /\ ModeNotifications <= 1
        /\ ModeNotifications = 1 => branch \in {"operation_mode", "controller_status"}
        /\ \A i, j \in DOMAIN notified :
                i < j => NotificationPosition(notified[i]) < NotificationPosition(notified[j])

C15_Witness ==
    /\ IsProcess
    /\ branch = "controller_status"
    /\ notified = << "operation_mode", "setpoint_shift" >>

\* task t is a set_operation_mode between its first send and its
\* _set_internal_operation_mode
BetweenFirstSendAndUpdate(t) ==
    /\ tasks[t].op = "set_operation_mode"
    /\ tasks[t].pc >= 2

\* C16: while a set_operation_mode is between its first send and its
\* _set_internal_operation_mode, no other call runs
\* _set_internal_operation_mode (which reads operation_mode) and
\* operation_mode does not change.
C16_MutationSerialized ==
    [][\A t \in TaskIds :
            (BetweenFirstSendAndUpdate(t) /\ tasks'[t] = tasks[t]) =>
                /\ operation_mode' = operation_mode
                /\ \A u \in TaskIds : tasks'[u].updated = tasks[u].updated]_vars

\* the last telegram sent on a group address
LastSentOn(group_address) ==
    LET on == {i \in DOMAIN sent : sent[i].group_address = group_address}
    IN  sent[CHOOSE i \in on : \A j \in on : j <= i]

\* C19: when two set_operation_mode calls with different modes have run
\* concurrently and both have ended, the last telegram sent on each
\* configured mode address is the one that carries operation_mode.
C19_LastTelegramCarriesMode ==
    (/\ \A t \in TaskIds : tasks[t].op = "set_operation_mode" /\ tasks[t].pc = 0
     /\ tasks[1].arg # tasks[2].arg) =>
        \A i \in DOMAIN set_operation_mode_sends(operation_mode) :
            LastSentOn(set_operation_mode_sends(operation_mode)[i].group_address)
                = set_operation_mode_sends(operation_mode)[i]

\* C17: after a set_target_temperature_comfort(t) that wrote its offset, with
\* t a whole number of tenths of a degree from the setpoint, the property
\* target_temperature_comfort is t.
C17_ConsistentScale ==
    (/\ IsSetTargetTemperatureComfort
     /\ branch = "set"
     /\ (call.arg - RemoteValue_value(setpoint)[1]) % TenthDegree = 0) =>
        target_temperature_comfort(name).returned = << call.arg >>

\* operation_mode is one of the modes get_supported_operation_modes returns
ModeIsSupported == operation_mode \in Range(get_supported_operation_modes)

\* C18 as stated: with supports_operation_mode, operation_mode is always one
\* of the modes get_supported_operation_modes returns.
C18_ModeAlwaysSupported == supports_operation_mode => ModeIsSupported

\* C18, amended: with the generic mode address or the controller status
\* address configured operation_mode is always one of the supported modes;
\* with neither, STANDBY, the mode of a new controller, is one, and a call
\* makes operation_mode a mode that is none only as set_operation_mode(m)
\* with such an m, or as process of a telegram on the mode state or
\* controller status state address that decodes to such an m.
C18_ModeSupportedWithFullAddress ==
    /\ (group_address_operation_mode # None \/ group_address_controller_status # None) =>
            ModeIsSupported
    /\ (supports_operation_mode /\ operation_mode = "STANDBY") => ModeIsSupported
    /\ (supports_operation_mode /\ ~ModeIsSupported /\ operation_mode # before.operation_mode) =>
            \/ IsSetOperationMode /\ call.arg = operation_mode
            \/ /\ IsProcess
               /\ call.arg.group_address \in
                    {group_address_operation_mode_state, group_address_controller_status_state}
               /\ Decoded(call.arg) = operation_mode

C18_Witness ==
    /\ supports_operation_mode
    /\ IsProcess
    /\ call.arg.group_address = group_address_controller_status_state
    /\ group_address_operation_mode_comfort # None
    /\ operation_mode = "NIGHT"
    /\ before.operation_mode = "STANDBY"
    /\ get_supported_operation_modes = << "COMFORT", "STANDBY" >>

\* C20 as stated: with supports_operation_mode, every set_operation_mode
\* sends at least one telegram.
C20_AlwaysSendsATelegram ==
    (IsSetOperationMode /\ supports_operation_mode) => Len(sent) >= 1

\* C20, amended: with supports_operation_mode, set_operation_mode(m) sends at
\* least one telegram exactly when one of the generic mode, protection,
\* night, comfort and controller status addresses is configured; with only
\* a mode state or controller status state address it sends nothing, and
\* operation_mode becomes m all the same.
C20_SendsIffWriteAddress ==
    (IsSetOperationMode /\ supports_operation_mode) =>
        /\ Len(sent) >= 1 <=> ConfiguredWriteAddresses # << >>
        /\ ConfiguredWriteAddresses = << >> =>
                \/ group_address_operation_mode_state # None
                \/ group_address_controller_status_state # None
        /\ operation_mode = call.arg

C20_Witness ==
    /\ IsSetOperationMode
    /\ supports_operation_mode
    /\ group_address_operation_mode_state # None
    /\ sent = << >>
    /\ call.arg = "NIGHT"
    /\ operation_mode = "NIGHT"
    /\ notified = << "operation_mode" >>

====
